---- MODULE Spec2Model ----
(***************************************************************************)
(* bkdetect: source attribution by similarity search.                      *)
(*                                                                         *)
(* The model follows src/src: the TextPipeline (text_pipeline.py), the     *)
(* ChunkedDocumentLoader (loaders.py), the TfidfIndexer (indexing.py) and  *)
(* the SourceFinder facade (source_finder.py).                             *)
(*                                                                         *)
(* Strings are sequences of one-character strings.  A similarity score is  *)
(* kept exactly, as the reduced fraction <<n, d>> of the SQUARED cosine;   *)
(* cosines of non-negative vectors are non-negative, so the order and the  *)
(* equality of scores are those of the squared values.                     *)
(***************************************************************************)
EXTENDS Integers, Sequences, FiniteSets, TLC

(***************************************************************************)
(* Bounds of the explored inputs.                                          *)
(***************************************************************************)
MaxLines      == 2   \* lines (paragraphs) per corpus file
MaxChunk      == 2   \* largest --chunk-size tried
MaxTopK       == 2   \* largest top_k tried (smallest is -1)
MaxPositions  == 2   \* largest max_positions_per_file tried (smallest is -1)
ShortSnippet  == 2   \* the snippet_len locate_source_positions is called with
MaxTextLen    == 3   \* longest unit text handed to _truncate on its own
MaxLimit      == 3   \* largest limit handed to _truncate on its own
MaxNormLen    == 3   \* longest text handed to transform on its own

(***************************************************************************)
(* Program constants.                                                      *)
(***************************************************************************)
NFeatures         == 1048576   \* n_features = 2 ** 20

Ellipsis == <<".", ".", ".">>

(***************************************************************************)
(* Small arithmetic and sequence helpers.                                  *)
(***************************************************************************)
Min(a, b) == IF a <= b THEN a ELSE b
Max(a, b) == IF a >= b THEN a ELSE b

RECURSIVE GCD(_, _)
GCD(a, b) == IF b = 0 THEN a ELSE GCD(b, a % b)

RECURSIVE SumSet(_, _)
SumSet(S, f) ==
  IF S = {} THEN 0
  ELSE LET x == CHOOSE y \in S : TRUE IN f[x] + SumSet(S \ {x}, f)

Range(s) == { s[i] : i \in 1..Len(s) }

RECURSIVE Concat(_)
Concat(ss) == IF ss = <<>> THEN <<>> ELSE Head(ss) \o Concat(Tail(ss))

\* Python's seq[:k]: a negative k counts from the end.
SliceTo(s, k) ==
  IF k >= 0 THEN SubSeq(s, 1, Min(k, Len(s)))
  ELSE SubSeq(s, 1, Max(0, Len(s) + k))

(***************************************************************************)
(* Characters.  The alphabet has the Latin letters a, b, c, n, s (the      *)
(* first three in both cases), the space and a punctuation mark; it has no *)
(* markup character.                                                       *)
(***************************************************************************)
IsSpace(ch) == ch = " "

\* str.lower on one character
LowerChar(ch) == IF ch = "A" THEN "a" ELSE IF ch = "B" THEN "b"
                 ELSE IF ch = "C" THEN "c" ELSE ch

\* a character the class [a-z0-9а-яё'] of _NON_ALPHANUMERIC_RE keeps
IsWordChar(ch) == ch \in {"a", "b", "c", "n", "s", "A", "B", "C", "'"}

\* str.rstrip()
RECURSIVE RStrip(_)
RStrip(text) ==
  IF text = <<>> THEN <<>>
  ELSE IF IsSpace(text[Len(text)]) THEN RStrip(SubSeq(text, 1, Len(text) - 1))
  ELSE text

\* str.lstrip()
RECURSIVE LStrip(_)
LStrip(text) ==
  IF text = <<>> THEN <<>>
  ELSE IF IsSpace(Head(text)) THEN LStrip(Tail(text))
  ELSE text

\* str.strip()
Strip(text) == RStrip(LStrip(text))

\* str.split(): the maximal runs of non-space characters
RECURSIVE SplitFrom(_, _, _)
SplitFrom(text, cur, acc) ==
  IF text = <<>> THEN (IF cur = <<>> THEN acc ELSE Append(acc, cur))
  ELSE IF IsSpace(Head(text))
       THEN SplitFrom(Tail(text), <<>>, IF cur = <<>> THEN acc ELSE Append(acc, cur))
       ELSE SplitFrom(Tail(text), Append(cur, Head(text)), acc)

Split(text) == SplitFrom(text, <<>>, <<>>)

(***************************************************************************)
(* TextPipeline (text_pipeline.py).                                        *)
(***************************************************************************)
\* stopwords.words("english") restricted to the tokens of the alphabet
EnglishStopwords ==
  { <<"a">>, <<"s">>, <<"a", "n">>, <<"a", "s">>, <<"c", "a", "n">> }

\* BeautifulSoup(text, "html.parser").get_text(separator=" "): a text with
\* no markup character is a single text node and comes back as it is.
StripMarkup(text) == text

\* _NON_ALPHANUMERIC_RE.sub(" ", lowered): every maximal run of characters
\* outside the class becomes one space.
RECURSIVE SubNonAlnum(_, _)
SubNonAlnum(text, inRun) ==
  IF text = <<>> THEN <<>>
  ELSE IF IsWordChar(Head(text))
       THEN <<Head(text)>> \o SubNonAlnum(Tail(text), FALSE)
       ELSE (IF inRun THEN <<>> ELSE <<" ">>) \o SubNonAlnum(Tail(text), TRUE)

NormalizeText(text) ==
  LET stripped == StripMarkup(text)
      lowered  == [i \in 1..Len(stripped) |-> LowerChar(stripped[i])]
  IN  SubNonAlnum(lowered, FALSE)

Tokenize(text) == SelectSeq(Split(text), LAMBDA token : token # <<>>)

LoadStopwords(cfg) ==
  IF ~cfg.remove_stopwords THEN {}
  ELSE IF cfg.language = "en" THEN EnglishStopwords
  ELSE {}

FilterStopwords(cfg, tokens) ==
  IF LoadStopwords(cfg) = {} THEN tokens
  ELSE SelectSeq(tokens, LAMBDA token : token \notin LoadStopwords(cfg))

\* step 1a of the Porter stemmer: SS -> SS, S -> (nothing).  Its rules
\* SSES -> SS and IES -> I need letters the alphabet does not have.
PorterStep1a(word) ==
  IF Len(word) >= 2 /\ word[Len(word)] = "s" /\ word[Len(word) - 1] = "s" THEN word
  ELSE IF Len(word) >= 1 /\ word[Len(word)] = "s" THEN SubSeq(word, 1, Len(word) - 1)
  ELSE word

\* nltk PorterStemmer.stem: the word is lowercased, a word of at most two
\* letters is returned as it is, a longer one goes through the steps.  Every
\* suffix of the steps after 1a has a letter outside the alphabet, so that
\* they leave the words of the alphabet as they are.
PorterStem(token) ==
  LET stem == [i \in 1..Len(token) |-> LowerChar(token[i])]
  IN  IF Len(token) <= 2 THEN stem ELSE PorterStep1a(stem)

\* _stem_tokens stemming whatever the use_stemming flag says
StemTokensAlways(cfg, tokens) == [i \in 1..Len(tokens) |-> PorterStem(tokens[i])]

StemTokens(cfg, tokens) ==
  IF ~cfg.use_stemming THEN tokens
  ELSE IF cfg.language = "en" THEN [i \in 1..Len(tokens) |-> PorterStem(tokens[i])]
  ELSE tokens

Transform(cfg, text) ==
  StemTokens(cfg, FilterStopwords(cfg, Tokenize(NormalizeText(text))))

(***************************************************************************)
(* Documents and the ChunkedDocumentLoader (documents.py, loaders.py).     *)
(* A corpus file is [path, suffix, lines]; lines are the lines of a text   *)
(* file or the paragraphs of a DOCX file.                                  *)
(***************************************************************************)
Document(path, text, idx) ==
  [path |-> path, text |-> text, metadata |-> idx, tokens |-> <<>>]

\* _load_txt / _load_docx: non-blank units, in chunks of chunk_size
RECURSIVE LoadUnits(_, _, _, _)
LoadUnits(file, idx, chunk, chunk_size) ==
  IF idx > Len(file.lines) THEN (IF chunk = <<>> THEN <<>> ELSE <<chunk>>)
  ELSE LET text == Strip(file.lines[idx]) IN
       IF text = <<>> THEN LoadUnits(file, idx + 1, chunk, chunk_size)
       ELSE LET grown == Append(chunk, Document(file.path, text, idx)) IN
            IF Len(grown) >= chunk_size
            THEN <<grown>> \o LoadUnits(file, idx + 1, <<>>, chunk_size)
            ELSE LoadUnits(file, idx + 1, grown, chunk_size)

\* ChunkedDocumentLoader.load: the chunks of every file, file after file
Load(fs, chunk_size) ==
  Concat([i \in 1..Len(fs) |-> LoadUnits(fs[i], 1, <<>>, chunk_size)])

(***************************************************************************)
(* Feature space (HashingVectorizer in indexing.py).  A vector is sparse:  *)
(* a function from the occupied slots to term counts.  The l2 norm the     *)
(* vectorizer applies to a row does not change a cosine and is left out.   *)
(***************************************************************************)
\* " ".join(tokens)
RECURSIVE JoinTokens(_)
JoinTokens(tokens) ==
  IF tokens = <<>> THEN <<>>
  ELSE IF Len(tokens) = 1 THEN Head(tokens)
  ELSE Head(tokens) \o <<" ">> \o JoinTokens(Tail(tokens))

\* abs(murmurhash3_32(token, seed=0)) for the tokens in use
MurmurAbs(token) ==
  CASE token = <<"a">> -> 1009084850
    [] token = <<"b">> -> 1780580861
    [] token = <<"c">> -> 516762017
    [] token = <<"a", "a">> -> 923832745
    [] token = <<"a", "b">> -> 1681926305
    [] token = <<"a", "c">> -> 1559197201
    [] token = <<"b", "a">> -> 441432330
    [] token = <<"b", "b">> -> 855411159
    [] token = <<"b", "c">> -> 1328615756
    [] token = <<"c", "a">> -> 245496272
    [] token = <<"c", "b">> -> 1979690426
    [] token = <<"c", "c">> -> 258643958

\* the slot of a token: abs(h) % n_features
HashSlot(token) == MurmurAbs(token) % NFeatures

Vectorize(tokens) ==
  [s \in { HashSlot(tokens[i]) : i \in 1..Len(tokens) } |->
     Cardinality({ i \in 1..Len(tokens) : HashSlot(tokens[i]) = s })]

Dot(u, v) ==
  LET common == (DOMAIN u) \cap (DOMAIN v)
  IN  SumSet(common, [s \in common |-> u[s] * v[s]])

\* cosine_similarity of two vectors; a zero vector gives 0
CosineSimilarity(u, v) ==
  LET d  == Dot(u, v)
      nn == Dot(u, u) * Dot(v, v)
  IN  IF nn = 0 \/ d = 0 THEN <<0, 1>>
      ELSE LET g == GCD(d * d, nn) IN <<(d * d) \div g, nn \div g>>

Zero == <<0, 1>>
ScoreGt(a, b) == a[1] * b[2] > b[1] * a[2]
ScoreLeqZero(a) == a[1] <= 0

\* sorted(items, key=lambda item: item[1], reverse=True): stable, so items
\* of equal score keep their order
RECURSIVE InsertDesc(_, _)
InsertDesc(sorted, item) ==
  IF sorted = <<>> THEN <<item>>
  ELSE IF ScoreGt(item.score, Head(sorted).score) THEN <<item>> \o sorted
  ELSE <<Head(sorted)>> \o InsertDesc(Tail(sorted), item)

RECURSIVE SortedDesc(_)
SortedDesc(items) ==
  IF items = <<>> THEN <<>>
  ELSE InsertDesc(SortedDesc(SubSeq(items, 1, Len(items) - 1)), items[Len(items)])

(***************************************************************************)
(* TfidfIndexer (indexing.py).  matrix = <<>> stands for None: the code    *)
(* stores a matrix only when it has at least one row.                      *)
(***************************************************************************)
\* the documents partial_fit vectorizes: those with tokens
TokenTexts(docs_chunk) ==
  LET kept == SelectSeq(docs_chunk, LAMBDA document : document.tokens # <<>>)
  IN  [i \in 1..Len(kept) |-> kept[i].tokens]

\* the rows partial_fit stacks under the matrix
FitRows(docs_chunk) ==
  LET token_texts == TokenTexts(docs_chunk)
  IN  [i \in 1..Len(token_texts) |-> Vectorize(token_texts[i])]

\* the documents partial_fit appends to doc_index
FitDocs(docs_chunk) ==
  IF TokenTexts(docs_chunk) = <<>> THEN <<>> ELSE docs_chunk

\* zip(self.doc_index, similarities): as long as the shorter of the two
Zipped(mat, didx, query_vector) ==
  [i \in 1..Min(Len(didx), Len(mat)) |->
     [doc |-> didx[i], score |-> CosineSimilarity(query_vector, mat[i])]]

\* TfidfIndexer.query; top_k is {} for None and {k} for the integer k
IndexQuery(mat, didx, tokens, top_k) ==
  IF mat = <<>> \/ didx = <<>> THEN <<>>
  ELSE LET ranked == SortedDesc(Zipped(mat, didx, Vectorize(tokens))) IN
       IF top_k = {} THEN ranked
       ELSE LET k == CHOOSE x \in top_k : TRUE IN
            IF k >= Len(ranked) THEN ranked ELSE SliceTo(ranked, k)

(***************************************************************************)
(* SourceFinder (source_finder.py).                                        *)
(***************************************************************************)
ProcessDocument(cfg, document) ==
  [document EXCEPT !.tokens = Transform(cfg, document.text)]

\* best.get(path, 0.0) on the insertion-ordered dict best
BestGet(best, path) ==
  IF \E i \in 1..Len(best) : best[i].path = path
  THEN best[CHOOSE i \in 1..Len(best) : best[i].path = path].score
  ELSE Zero

\* best[path] = score: a new key goes to the end, an old key keeps its place
BestSet(best, path, score) ==
  IF \E i \in 1..Len(best) : best[i].path = path
  THEN [i \in 1..Len(best) |->
          IF best[i].path = path THEN [path |-> path, score |-> score] ELSE best[i]]
  ELSE Append(best, [path |-> path, score |-> score])

RECURSIVE AggregateFrom(_, _)
AggregateFrom(scored_documents, best) ==
  IF scored_documents = <<>> THEN best
  ELSE LET doc   == Head(scored_documents).doc
           score == Head(scored_documents).score
       IN  IF ScoreLeqZero(score) THEN AggregateFrom(Tail(scored_documents), best)
           ELSE IF ScoreGt(score, BestGet(best, doc.path))
                THEN AggregateFrom(Tail(scored_documents), BestSet(best, doc.path, score))
                ELSE AggregateFrom(Tail(scored_documents), best)

AggregateBestScores(scored_documents) == AggregateFrom(scored_documents, <<>>)

\* find_sources without the [:top_k] slice
RankedPathsUnsliced(best_scores, top_k) == SortedDesc(best_scores)

\* sorted(best_scores.items(), ..., reverse=True)[:top_k]
RankedPaths(best_scores, top_k) == SliceTo(SortedDesc(best_scores), top_k)

\* find_sources without the early return on an empty token list
FindSourcesRunNoGuard(cfg, mat, didx, query_text, top_k) ==
  [matches |-> RankedPaths(AggregateBestScores(
                 IndexQuery(mat, didx, Transform(cfg, query_text), {})), top_k),
   queries |-> 1]

\* find_sources asking the index for the top_k units only, so that the
\* ranking is cut before it is aggregated
FindSourcesRunTruncateFirst(cfg, mat, didx, query_text, top_k) ==
  LET tokens == Transform(cfg, query_text) IN
  IF tokens = <<>> THEN [matches |-> <<>>, queries |-> 0]
  ELSE [matches |-> RankedPaths(AggregateBestScores(
                      IndexQuery(mat, didx, tokens, {top_k})), top_k),
        queries |-> 1]

\* find_sources: the SourceMatch values [path, score] it returns and the
\* number of indexer.query calls it makes
FindSourcesRun(cfg, mat, didx, query_text, top_k) ==
  LET tokens == Transform(cfg, query_text) IN
  IF tokens = <<>> THEN [matches |-> <<>>, queries |-> 0]
  ELSE [matches |-> RankedPaths(AggregateBestScores(IndexQuery(mat, didx, tokens, {})), top_k),
        queries |-> 1]

FindSources(cfg, mat, didx, query_text, top_k) ==
  FindSourcesRun(cfg, mat, didx, query_text, top_k).matches

\* _truncate without the rstrip
TruncateNoStrip(text, limit) ==
  IF Len(text) <= limit THEN text
  ELSE SliceTo(text, limit) \o Ellipsis

\* _truncate
Truncate(text, limit) ==
  IF Len(text) <= limit THEN text
  ELSE RStrip(SliceTo(text, limit)) \o Ellipsis

\* _matches_query
MatchesQuery(cfg, text, query_tokens) ==
  Range(Transform(cfg, text)) \cap query_tokens # {}

\* the loop guard off by one
ScanBreakLate(count, max_positions_per_file) == count > max_positions_per_file

\* the loop guard of _scan_text and _scan_docx: break when it holds
ScanBreak(count, max_positions_per_file) == count >= max_positions_per_file

\* a position that does not take the score of its match
PositionScoreUnset(match) == Zero

\* the score a SourcePosition carries
PositionScore(match) == match.score

\* _scan_text / _scan_docx from unit idx on: the positions found and the
\* unit indices the loop body ran for
RECURSIVE ScanFrom(_, _, _, _, _, _, _, _)
ScanFrom(cfg, file, match, query_tokens, max_positions_per_file, snippet_len, idx, acc) ==
  IF idx > Len(file.lines) THEN acc
  ELSE IF ScanBreak(Len(acc.positions), max_positions_per_file) THEN acc
  ELSE LET snippet == Strip(file.lines[idx])
           seen    == Append(acc.iterated, idx)
       IN  IF snippet = <<>>
           THEN ScanFrom(cfg, file, match, query_tokens, max_positions_per_file,
                         snippet_len, idx + 1, [acc EXCEPT !.iterated = seen])
           ELSE IF MatchesQuery(cfg, snippet, query_tokens)
           THEN ScanFrom(cfg, file, match, query_tokens, max_positions_per_file,
                         snippet_len, idx + 1,
                         [positions |-> Append(acc.positions,
                             [path    |-> match.path,
                              index   |-> idx,
                              snippet |-> Truncate(snippet, snippet_len),
                              score   |-> PositionScore(match),
                              label   |-> IF file.suffix = ".docx" THEN "paragraph" ELSE "line"]),
                          iterated |-> seen])
           ELSE ScanFrom(cfg, file, match, query_tokens, max_positions_per_file,
                         snippet_len, idx + 1, [acc EXCEPT !.iterated = seen])

FileOf(fs, path) == fs[CHOOSE i \in 1..Len(fs) : fs[i].path = path]

Scan(cfg, fs, match, query_tokens, max_positions_per_file, snippet_len) ==
  ScanFrom(cfg, FileOf(fs, match.path), match, query_tokens,
           max_positions_per_file, snippet_len, 1,
           [positions |-> <<>>, iterated |-> <<>>])

\* the scans joined last match first
JoinScansReversed(scans) ==
  Concat([i \in 1..Len(scans) |-> scans[Len(scans) + 1 - i].positions])

\* positions.extend(...) over the matches, in their order
JoinScans(scans) == Concat([i \in 1..Len(scans) |-> scans[i].positions])

\* locate_source_positions: the positions it returns, the index queries it
\* makes, the files it reads and the units each scan visits
LocateRun(cfg, fs, mat, didx, query_text, top_k, max_positions_per_file, snippet_len) ==
  LET found == FindSourcesRun(cfg, mat, didx, query_text, top_k) IN
  IF found.matches = <<>>
  THEN [positions |-> <<>>, queries |-> found.queries, reads |-> <<>>, iterated |-> <<>>]
  ELSE LET query_tokens == Range(Transform(cfg, query_text))
           scans == [i \in 1..Len(found.matches) |->
                       Scan(cfg, fs, found.matches[i], query_tokens,
                            max_positions_per_file, snippet_len)]
       IN  [positions |-> JoinScans(scans),
            queries   |-> found.queries,
            reads     |-> [i \in 1..Len(found.matches) |-> found.matches[i].path],
            iterated  |-> [i \in 1..Len(scans) |-> scans[i].iterated]]

(***************************************************************************)
(* Inputs.                                                                 *)
(***************************************************************************)
\* the raw lines the first corpus file is made of
LineTexts == { <<"B">>, <<"c", " ", "b">>, <<"a", "!">> }

\* the raw paragraphs the second corpus file is made of
ParagraphTexts == { <<"B">>, <<"a", "!">> }

\* the raw query texts
QueryTexts == { <<"b">>, <<"c", "!">>, <<"a", " ", "!">> }

\* token sequences handed to TfidfIndexer.query directly
QueryTokens == { <<>>, <<<<"b">>>>, <<<<"c">>, <<"b">>>> }

Contents(texts) == UNION { [1..n -> texts] : n \in 0..MaxLines }

\* the corpus directory: two files, in the order rglob yields them
Corpora ==
  { << [path |-> "a.txt",  suffix |-> ".txt",  lines |-> la],
       [path |-> "b.docx", suffix |-> ".docx", lines |-> lb] >> :
    la \in Contents(LineTexts), lb \in Contents(ParagraphTexts) }

\* TextPipeline configurations
EnglishConfig == [language |-> "en", use_stemming |-> TRUE, remove_stopwords |-> TRUE]

TopKs        == -1..MaxTopK   \* top_k of query and find_sources
LocateTopKs  == 1..MaxTopK    \* top_k of locate_source_positions
MaxPositionsSet == -1..MaxPositions
SnippetLens  == { ShortSnippet }

NoArgs == [query_text |-> <<>>, tokens |-> <<>>, text |-> <<>>, top_k |-> {},
           max_positions_per_file |-> 0, snippet_len |-> 0]
NoTrace == [queries |-> 0, reads |-> <<>>, iterated |-> <<>>]

(***************************************************************************)
(* State.                                                                  *)
(***************************************************************************)
VARIABLES
  files,       \* the corpus files on disk
  pipeline,    \* the TextPipeline configuration
  chunk_size,  \* ChunkedDocumentLoader.chunk_size
  loaded,      \* number of chunks build_index has taken from loader.load()
  matrix,      \* TfidfIndexer.matrix
  doc_index,   \* TfidfIndexer.doc_index
  op,          \* the call whose result the caller holds, or "idle"
  args,        \* the arguments of that call
  ret,         \* its return value
  trace        \* what the call did: index queries, files read, units visited

vars == <<files, pipeline, chunk_size, loaded, matrix, doc_index, op, args, ret, trace>>

index == <<matrix, doc_index>>
setup == <<files, pipeline, chunk_size>>

Init ==
  /\ files \in Corpora
  /\ pipeline = EnglishConfig
  /\ \E n \in 0..MaxChunk : chunk_size = Max(1, n)
  /\ loaded = 0
  /\ matrix = <<>>
  /\ doc_index = <<>>
  /\ op = "idle"
  /\ args = NoArgs
  /\ ret = <<>>
  /\ trace = NoTrace

(***************************************************************************)
(* Actions.                                                                *)
(***************************************************************************)
\* partial_fit storing the new rows in place of the matrix (no vstack)
PartialFitReplace(docs_chunk) ==
  /\ matrix' = (IF FitRows(docs_chunk) = <<>> THEN matrix ELSE FitRows(docs_chunk))
  /\ doc_index' = doc_index \o FitDocs(docs_chunk)

\* TfidfIndexer.partial_fit
PartialFit(docs_chunk) ==
  /\ matrix' = matrix \o FitRows(docs_chunk)
  /\ doc_index' = doc_index \o FitDocs(docs_chunk)

\* one iteration of the loop of build_index: the next chunk of the loader
\* is processed and added to the index
BuildStep ==
  /\ op = "idle"
  /\ loaded < Len(Load(files, chunk_size))
  /\ LET docs_chunk == Load(files, chunk_size)[loaded + 1]
         processed  == [i \in 1..Len(docs_chunk) |-> ProcessDocument(pipeline, docs_chunk[i])]
     IN  PartialFit(processed)
  /\ loaded' = loaded + 1
  /\ UNCHANGED <<setup, op, args, ret, trace>>

\* TfidfIndexer.query(tokens, top_k)
Query ==
  /\ op = "idle"
  /\ \E tokens \in QueryTokens, top_k \in {{}} \cup { {k} : k \in TopKs } :
       /\ op' = "query"
       /\ args' = [NoArgs EXCEPT !.tokens = tokens, !.top_k = top_k]
       /\ ret' = IndexQuery(matrix, doc_index, tokens, top_k)
       /\ trace' = [NoTrace EXCEPT !.queries = 1]
  /\ UNCHANGED <<setup, loaded, index>>

\* SourceFinder.find_sources(query_text, top_k)
FindSourcesCall ==
  /\ op = "idle"
  /\ \E query_text \in QueryTexts, top_k \in TopKs :
       LET run == FindSourcesRun(pipeline, matrix, doc_index, query_text, top_k) IN
       /\ op' = "find_sources"
       /\ args' = [NoArgs EXCEPT !.query_text = query_text, !.top_k = {top_k}]
       /\ ret' = run.matches
       /\ trace' = [NoTrace EXCEPT !.queries = run.queries]
  /\ UNCHANGED <<setup, loaded, index>>

\* SourceFinder.locate_source_positions(query_text, top_k=, max_positions_per_file=, snippet_len=)
LocateSourcePositions ==
  /\ op = "idle"
  /\ \E query_text \in QueryTexts, top_k \in LocateTopKs,
        max_positions_per_file \in MaxPositionsSet, snippet_len \in SnippetLens :
       LET run == LocateRun(pipeline, files, matrix, doc_index, query_text, top_k,
                            max_positions_per_file, snippet_len)
       IN  /\ op' = "locate_source_positions"
           /\ args' = [NoArgs EXCEPT !.query_text = query_text, !.top_k = {top_k},
                          !.max_positions_per_file = max_positions_per_file,
                          !.snippet_len = snippet_len]
           /\ ret' = run.positions
           /\ trace' = [queries  |-> run.queries,
                        reads    |-> run.reads,
                        iterated |-> run.iterated]
  /\ UNCHANGED <<setup, loaded, index>>

\* the caller is done with the returned values and is free to call again
Consume ==
  /\ op # "idle"
  /\ op' = "idle"
  /\ args' = NoArgs
  /\ ret' = <<>>
  /\ trace' = NoTrace
  /\ UNCHANGED <<setup, loaded, index>>

Next ==
  \/ BuildStep
  \/ Query
  \/ FindSourcesCall
  \/ LocateSourcePositions
  \/ Consume

Spec == Init /\ [][Next]_vars

(***************************************************************************)
(* _truncate on its own: the unit text and the limit are drawn in the      *)
(* initial state and one step applies the function.                        *)
(***************************************************************************)
\* stripped, non-empty unit texts, as _scan_text and _scan_docx hand them over
UnitTexts ==
  { t \in UNION { [1..n -> {"b", "c", " "}] : n \in 1..MaxTextLen } : Strip(t) = t }

Limits == -2..MaxLimit

InitTruncate ==
  /\ files = <<>>
  /\ pipeline = EnglishConfig
  /\ chunk_size = 1
  /\ loaded = 0
  /\ matrix = <<>>
  /\ doc_index = <<>>
  /\ op = "call_truncate"
  /\ \E text \in UnitTexts, limit \in Limits :
       args = [NoArgs EXCEPT !.text = text, !.snippet_len = limit]
  /\ ret = <<>>
  /\ trace = NoTrace

TruncateCall ==
  /\ op = "call_truncate"
  /\ op' = "truncate"
  /\ ret' = Truncate(args.text, args.snippet_len)
  /\ UNCHANGED <<setup, loaded, index, args, trace>>

NextTruncate == TruncateCall

SpecTruncate == InitTruncate /\ [][NextTruncate]_vars

(***************************************************************************)
(* TextPipeline.transform on its own: the text and the configuration are   *)
(* drawn in the initial state and one step applies the function.           *)
(***************************************************************************)
NormChars == {"a", "n", "s", "C", " ", "!"}

NormTexts == UNION { [1..n -> NormChars] : n \in 0..MaxNormLen }

\* "en" has stopwords and a stemmer, "xx" has neither
Configs ==
  [language : {"en", "xx"}, use_stemming : BOOLEAN, remove_stopwords : BOOLEAN]

InitNormalize ==
  /\ files = <<>>
  /\ pipeline \in Configs
  /\ chunk_size = 1
  /\ loaded = 0
  /\ matrix = <<>>
  /\ doc_index = <<>>
  /\ op = "call_transform"
  /\ \E text \in NormTexts : args = [NoArgs EXCEPT !.text = text]
  /\ ret = <<>>
  /\ trace = NoTrace

TransformCall ==
  /\ op = "call_transform"
  /\ op' = "transform"
  /\ ret' = Transform(pipeline, args.text)
  /\ UNCHANGED <<setup, loaded, index, args, trace>>

NextNormalize == TransformCall

SpecNormalize == InitNormalize /\ [][NextNormalize]_vars

(***************************************************************************)
(* Properties.                                                             *)
(***************************************************************************)
\* the arguments of the call whose result is held
ArgK == CHOOSE k \in args.top_k : TRUE
ArgTokens == Transform(pipeline, args.query_text)

\* the documents the loader has handed to the index so far, processed
Supplied ==
  LET chunks == SubSeq(Load(files, chunk_size), 1, loaded)
      docs   == Concat(chunks)
  IN  [i \in 1..Len(docs) |-> ProcessDocument(pipeline, docs[i])]

\* similarity of the query of the held call and one indexed unit
UnitSimilarity(document) ==
  CosineSimilarity(Vectorize(ArgTokens), Vectorize(document.tokens))

\* score is the greatest similarity among the indexed units of the file path
IsBestOf(score, path) ==
  /\ \E i \in 1..Len(doc_index) :
       doc_index[i].path = path /\ UnitSimilarity(doc_index[i]) = score
  /\ \A i \in 1..Len(doc_index) :
       doc_index[i].path = path => ~ScoreGt(UnitSimilarity(doc_index[i]), score)

\* position of the first unit of the file path in doc_index
FirstUnit(path) ==
  CHOOSE i \in 1..Len(doc_index) :
    /\ doc_index[i].path = path
    /\ \A j \in 1..(i - 1) : doc_index[j].path # path

\* C1: after any sequence of partial_fit calls the matrix has as many rows
\* as doc_index has documents, and row i is the vector of doc_index[i].
C1_RowsMatchDocIndex ==
  IF Len(matrix) # Len(doc_index) THEN FALSE
  ELSE \A i \in 1..Len(doc_index) : matrix[i] = Vectorize(doc_index[i].tokens)

\* C2: partial_fit skips every document without tokens: none is in
\* doc_index, and the matrix has one row per supplied document with tokens.
C2_EmptyDocumentsSkipped ==
  /\ \A i \in 1..Len(doc_index) : doc_index[i].tokens # <<>>
  /\ Len(matrix) = Len(SelectSeq(Supplied, LAMBDA document : document.tokens # <<>>))

\* C3: every SourceMatch of find_sources carries the greatest similarity of
\* the units of its file against the query, and that similarity is positive.
C3_ScoreIsBestUnitSimilarity ==
  op = "find_sources" =>
    \A i \in 1..Len(ret) :
      IsBestOf(ret[i].score, ret[i].path) /\ ScoreGt(ret[i].score, Zero)

\* the matches find_sources returns for the arguments of the held call
HeldMatches == FindSources(pipeline, matrix, doc_index, args.query_text, ArgK)

\* C4: for k >= 0, find_sources(q, top_k=k) returns at most k matches, each
\* for a distinct path, with scores in non-increasing order.
C4_AtMostKDistinctSorted ==
  (op = "find_sources" /\ ArgK >= 0) =>
    /\ Len(ret) <= ArgK
    /\ \A i, j \in 1..Len(ret) : i # j => ret[i].path # ret[j].path
    /\ \A i \in 1..(Len(ret) - 1) : ~ScoreGt(ret[i + 1].score, ret[i].score)

\* C4 witness: more files match than k allows and find_sources returned k.
C4_Witness ==
  /\ op = "find_sources"
  /\ ArgK = 1
  /\ Len(ret) = 1
  /\ Len(AggregateBestScores(IndexQuery(matrix, doc_index, ArgTokens, {}))) > 1

\* position of a document in doc_index
DocPos(document) == CHOOSE i \in 1..Len(doc_index) : doc_index[i] = document

\* C5: ties are broken by insertion order: query returns entries of equal
\* score in the order their documents were appended, find_sources returns
\* files of equal best score in the order the files were inserted, and two
\* files of identical content both appear, the first-inserted one first.
C5_TiesByInsertionOrder ==
  /\ op = "query" =>
       \A i, j \in 1..Len(ret) :
         (i < j /\ ret[i].score = ret[j].score) => DocPos(ret[i].doc) < DocPos(ret[j].doc)
  /\ op = "find_sources" =>
       \A i, j \in 1..Len(ret) :
         (i < j /\ ret[i].score = ret[j].score)
           => FirstUnit(ret[i].path) < FirstUnit(ret[j].path)
  /\ ( /\ op = "find_sources"
       /\ ArgK >= Len(files)
       /\ loaded = Len(Load(files, chunk_size))
       /\ files[1].lines = files[2].lines
       /\ \E i \in 1..Len(Supplied) : ScoreGt(UnitSimilarity(Supplied[i]), Zero) )
     => [i \in 1..Len(ret) |-> ret[i].path] = <<files[1].path, files[2].path>>

\* C6: a query text without tokens makes find_sources and
\* locate_source_positions return an empty sequence, with no query of the
\* index and no source file read.
C6_EmptyQueryReturnsEmpty ==
  (op \in {"find_sources", "locate_source_positions"} /\ ArgTokens = <<>>) =>
    /\ ret = <<>>
    /\ trace.queries = 0
    /\ trace.reads = <<>>

\* C6 witness: locate_source_positions was called on a populated index with
\* a non-empty query text that has no tokens.
C6_Witness ==
  /\ op = "locate_source_positions"
  /\ args.query_text # <<>>
  /\ ArgTokens = <<>>
  /\ matrix # <<>>

\* number of returned positions of one file
PositionsOf(path) == Cardinality({ i \in 1..Len(ret) : ret[i].path = path })

\* a scan visits a unit only while fewer than the cap positions of its file
\* were emitted
StopsAtCap ==
  \A s \in 1..Len(trace.iterated) :
    \A n \in 1..Len(trace.iterated[s]) :
      Cardinality({ i \in 1..Len(ret) :
                     /\ ret[i].path = trace.reads[s]
                     /\ ret[i].index < trace.iterated[s][n] })
        < args.max_positions_per_file

\* C7 as claimed: every file has at most max_positions_per_file returned
\* positions, and its scan stops once that many were emitted.
C7_AtMostMaxPositions ==
  op = "locate_source_positions" =>
    /\ \A f \in 1..Len(files) : PositionsOf(files[f].path) <= args.max_positions_per_file
    /\ StopsAtCap

\* C7 amended: every file has at most max(max_positions_per_file, 0)
\* returned positions, and its scan stops once the cap is reached.
C7_AtMostMaxPositionsNonNegative ==
  op = "locate_source_positions" =>
    /\ \A f \in 1..Len(files) :
         PositionsOf(files[f].path) <= Max(args.max_positions_per_file, 0)
    /\ StopsAtCap

\* C7 witness: a scan stopped at the cap before the end of its file.
C7_Witness ==
  /\ op = "locate_source_positions"
  /\ args.max_positions_per_file = 1
  /\ \E s \in 1..Len(trace.reads) :
       /\ PositionsOf(trace.reads[s]) = 1
       /\ Len(trace.iterated[s]) < Len(FileOf(files, trace.reads[s]).lines)

\* C8 as claimed: for every limit the snippet is at most limit + 3 long, a
\* text no longer than the limit is returned unchanged, and a longer text
\* gives its first limit characters, right-stripped, plus the ellipsis.
C8_TruncateLength ==
  op = "truncate" =>
    /\ Len(ret) <= args.snippet_len + Len(Ellipsis)
    /\ Len(args.text) <= args.snippet_len => ret = args.text
    /\ Len(args.text) > args.snippet_len =>
         ret = RStrip(SubSeq(args.text, 1, args.snippet_len)) \o Ellipsis

\* C8 amended: the same, for every limit >= 0.
C8_TruncateLengthNonNegative ==
  (op = "truncate" /\ args.snippet_len >= 0) =>
    /\ Len(ret) <= args.snippet_len + Len(Ellipsis)
    /\ Len(args.text) <= args.snippet_len => ret = args.text
    /\ Len(args.text) > args.snippet_len =>
         ret = RStrip(SubSeq(args.text, 1, args.snippet_len)) \o Ellipsis

\* C8 witness: a text was cut right after a space, which was then stripped.
C8_Witness ==
  /\ op = "truncate"
  /\ args.snippet_len >= 1
  /\ Len(args.text) > args.snippet_len
  /\ IsSpace(args.text[args.snippet_len])
  /\ Len(ret) = args.snippet_len - 1 + Len(Ellipsis)

\* C9: every returned position has the path and the score of one of the
\* matches find_sources returns for the same query and top_k; the pass
\* reads only matched files and makes no index query of its own.
C9_PositionsCarryMatchScore ==
  op = "locate_source_positions" =>
    LET found == FindSourcesRun(pipeline, matrix, doc_index, args.query_text, ArgK) IN
    /\ \A i \in 1..Len(ret) :
         \E j \in 1..Len(found.matches) :
           found.matches[j].path = ret[i].path /\ found.matches[j].score = ret[i].score
    /\ trace.reads = [j \in 1..Len(found.matches) |-> found.matches[j].path]
    /\ trace.queries = found.queries

\* C9 witness: positions of two files with different match scores.
C9_Witness ==
  /\ op = "locate_source_positions"
  /\ \E i, j \in 1..Len(ret) :
       ret[i].path # ret[j].path /\ ret[i].score # ret[j].score

\* rank of a file among the matches found
RankOf(found, path) == CHOOSE j \in 1..Len(found) : found[j].path = path

\* C10: positions are ordered by the rank of their file in find_sources
\* and, within a file, by strictly increasing unit index.
C10_RankThenUnitOrder ==
  op = "locate_source_positions" =>
    LET found == HeldMatches
        rank  == [i \in 1..Len(ret) |-> RankOf(found, ret[i].path)]
    IN  \A i, j \in 1..Len(ret) :
          i < j =>
            \/ rank[i] < rank[j]
            \/ (ret[i].path = ret[j].path /\ ret[i].index < ret[j].index)

\* C10 witness: two positions of one file and a position of another file.
C10_Witness ==
  /\ op = "locate_source_positions"
  /\ \E i, j, k \in 1..Len(ret) :
       /\ i < j
       /\ ret[i].path = ret[j].path
       /\ ret[k].path # ret[i].path

\* the full per-unit ranking of the index for the query of the held call
FullRanking == IndexQuery(matrix, doc_index, ArgTokens, {})

\* the best score of the units of one file in a per-unit ranking, 0 if none
BestUnitScore(ranking, path) ==
  LET scores == { ranking[i].score : i \in { j \in 1..Len(ranking) : ranking[j].doc.path = path } }
  IN  IF scores = {} THEN Zero
      ELSE CHOOSE x \in scores : \A y \in scores : ~ScoreGt(y, x)

\* C11: find_sources aggregates the full per-unit ranking before it
\* truncates: a file that is not returned has a best unit score <= 0 or a
\* best unit score no greater than the score of every returned file, and
\* with fewer than k files returned no file of positive best score is left
\* out, however many units of other files rank above its best unit.
C11_AggregateBeforeTruncate ==
  op = "find_sources" =>
    LET ranking  == FullRanking
        returned == { ret[i].path : i \in 1..Len(ret) }
        left     == { files[f].path : f \in 1..Len(files) } \ returned
    IN  /\ \A path \in left :
             \/ ScoreLeqZero(BestUnitScore(ranking, path))
             \/ \A i \in 1..Len(ret) : ~ScoreGt(BestUnitScore(ranking, path), ret[i].score)
        /\ (ArgK >= 0 /\ Len(ret) < ArgK) =>
             \A path \in left : ScoreLeqZero(BestUnitScore(ranking, path))

\* C11 witness: with top_k = 1 the two best-ranked units belong to one file
\* and the other file, whose best unit scores above 0, is not returned.
C11_Witness ==
  /\ op = "find_sources"
  /\ ArgK = 1
  /\ Len(ret) = 1
  /\ Len(FullRanking) >= 3
  /\ FullRanking[1].doc.path = ret[1].path
  /\ FullRanking[2].doc.path = ret[1].path
  /\ \E f \in 1..Len(files) :
       /\ files[f].path # ret[1].path
       /\ ScoreGt(BestUnitScore(FullRanking, files[f].path), Zero)

IsPrefix(s, t) == Len(s) <= Len(t) /\ SubSeq(t, 1, Len(s)) = s

\* C12: the index is append-only: every step leaves the doc_index entries
\* and the matrix rows it found, unchanged and in order, as a prefix of
\* those after it, and a step of query, find_sources or
\* locate_source_positions leaves doc_index and the matrix unchanged.
C12_IndexAppendOnly ==
  [][ /\ IsPrefix(doc_index, doc_index')
      /\ IsPrefix(matrix, matrix')
      /\ op' \in {"query", "find_sources", "locate_source_positions"}
           => (doc_index' = doc_index /\ matrix' = matrix) ]_vars

\* C12 witness: locate_source_positions has returned positions from an
\* index that holds some chunks and is still to receive others.
C12_Witness ==
  /\ op = "locate_source_positions"
  /\ ret # <<>>
  /\ loaded >= 1
  /\ loaded < Len(Load(files, chunk_size))
  /\ matrix # <<>>

\* transform applied to the space-joined tokens of the held result
SecondPass == Transform(pipeline, JoinTokens(ret))

\* C13 as claimed: under every configuration, transform applied to the
\* space-joined tokens of transform(t) gives the tokens of transform(t).
C13_TransformIdempotent ==
  op = "transform" => SecondPass = ret

\* C13 amended: the same, under every configuration in which stemming is
\* off or the language has no stemmer.
C13_TransformIdempotentUnstemmed ==
  (op = "transform" /\ (~pipeline.use_stemming \/ pipeline.language # "en")) =>
    SecondPass = ret

\* C13 witness: without stemming, a text that is not in normal form lost a
\* stopword and kept a token.
C13_Witness ==
  /\ op = "transform"
  /\ pipeline.language = "en"
  /\ ~pipeline.use_stemming
  /\ pipeline.remove_stopwords
  /\ ret # <<>>
  /\ Len(ret) < Len(Tokenize(NormalizeText(args.text)))
  /\ \E i \in 1..Len(args.text) : args.text[i] \in {"C", "!"}

====
